---------------------------- MODULE Spec2Model ----------------------------
(***************************************************************************)
(* Model of the gesture classifier of djarvis: GestureDetector             *)
(* (src/src/gesture_detection.py), the motion window it keeps, its two     *)
(* cooldowns, the frame skipping of process_frame and the loop over the    *)
(* observed hands; and of what consumes its gestures: handle_gesture of    *)
(* SpotifyController (src/src/spotify_controller.py) and the loop of main  *)
(* (src/src/main.py).                                                      *)
(*                                                                         *)
(* Units.  A landmark coordinate is an integer number of hundredths of the *)
(* normalized frame (x = 30 is 0.30).  current_position is the midpoint of *)
(* wrist and thumb tip; it is kept doubled (wrist + thumb), that is in     *)
(* two-hundredths, so that the halving is exact.  Samples of the window    *)
(* and net displacements are in the same doubled unit, and the literals of *)
(* the code that are compared with them are doubled too (0.08 is 16).      *)
(* Times are in tenths of a second (0.3 s is 3, 2.0 s is 20).  The model   *)
(* computes in exact integers what the code computes in floats.            *)
(***************************************************************************)
EXTENDS Integers, Sequences, FiniteSets, TLC

VARIABLES
    initial_position,   \* self.initial_position: NoPosition or <<x2, y2>>
    movement_history,   \* self.movement_history: sequence of <<dx2, dy2>>
    last_gesture_time,  \* self.last_gesture_time
    frame_skip_count,   \* self.frame_skip_count, kept modulo process_every_n_frames
    now,                \* the clock read by time.time()
    gesture,            \* what the last process_frame call returned
    n_hands,            \* number of hands the estimator reported on the last classified call
    n_fed,              \* number of those hands passed to detect_gesture on that call
    n_emit,             \* number of detect_gesture calls that emitted a gesture on that call
    emitted,            \* history: per gesture class, the times of the last two emissions
    running,            \* main: the while loop has not been left
    ctl_last_gesture,   \* SpotifyController.last_gesture
    ctl_last_gesture_time, \* SpotifyController.last_gesture_time
    action,             \* the playback method the last handle_gesture call invoked
    before,             \* history: the gesture processed before ctl_last_gesture, and when
    gap,                \* history: when the last call invoked a playback method, the
                        \* time since an earlier call invoked the same one (or NoTime)
    hand_pos,           \* where the gliding hand is, in hundredths
    velocity,           \* what the gliding hand moves by from one frame to the next
    calls_since_reset,  \* history: detect_gesture calls since the tracker was last reset
    emit_call           \* history: which of those calls returned the last gesture (or 0)

(* the state of GestureDetector with the clock, and what is recorded of    *)
(* its last call                                                           *)
detector == <<initial_position, movement_history, last_gesture_time,
              frame_skip_count, gesture, n_hands, n_fed, n_emit>>

(* the state of SpotifyController and of the loop of main *)
controller == <<running, ctl_last_gesture, ctl_last_gesture_time, action,
                before, gap>>

(* the hand in front of the camera, when it glides at constant velocity *)
glide == <<hand_pos, velocity>>

(* the count of detect_gesture calls since the tracker was reset *)
warmup == <<calls_since_reset, emit_call>>

vars == <<detector, now, emitted, controller, glide, warmup>>

-----------------------------------------------------------------------------
(* Configuration of GestureDetector.__init__ *)

play_pause_cooldown == 20
gesture_cooldown == 3
min_swipe_frames == 3
movement_history_size == 3
process_every_n_frames == 4

(* Literals of detect_gesture and process_frame *)
SwipeNetDist == 16        \* net_dist > 0.08, doubled unit
VerticalDist == 16        \* vertical_dist > 0.08, doubled unit
OpenPalmDist == 12        \* avg_dist > 0.12
ClosedFistDist == 6       \* avg_dist < 0.06
QuitWristY == 30          \* wrist.y < 0.3

(* time.time() when the detector is constructed: any epoch time is at      *)
(* least play_pause_cooldown after the initial last_gesture_time of 0.     *)
StartTime == play_pause_cooldown

(* Bound of the model: the clock stops advancing at MaxTime. *)
MaxTime == 43

(* The instants at which the clock is read: the start, 0.2 s and 0.3 s     *)
(* later (below and at gesture_cooldown), 2.0 s after the start and 2.0 s  *)
(* after the 0.3 s instant (at play_pause_cooldown, and 0.3 s, 1.7 s and   *)
(* 1.8 s below it), then every tenth of a second up to MaxTime.            *)
Instants ==
    {t \in StartTime..MaxTime :
        \/ t - StartTime \in {0, 2, gesture_cooldown, play_pause_cooldown,
                              gesture_cooldown + play_pause_cooldown}
        \/ t > StartTime + gesture_cooldown + play_pause_cooldown}

NoPosition == <<>>
None == "None"
NoTime == 0 - 1

MotionGestures == {"swipe_left", "swipe_right", "volume_up", "volume_down"}
StaticGestures == {"play", "pause"}
Gestures == MotionGestures \cup StaticGestures \cup {"quit"}

Abs(a) == IF a < 0 THEN -a ELSE a

-----------------------------------------------------------------------------
(* Landmarks.  A hand is a function from landmark indices to points        *)
(* <<x, y>>; only the indices the code reads (wrist 0 and the fingertips   *)
(* 4, 8, 12, 16, 20) are kept.  hand_landmarks.landmark[i] raises          *)
(* IndexError exactly when i is not in the domain of the hand.             *)

WRIST == 0
THUMB_TIP == 4
fingertip_indices == <<4, 8, 12, 16, 20>>

HasLandmark(hand, i) == i \in DOMAIN hand

Max(a, b) == IF a > b THEN a ELSE b

(* (dx**2 + dy**2) ** 0.5, exact on the hands of the model (whose          *)
(* distances are whole hundredths), rounded down otherwise; the root lies  *)
(* between the larger of |dx|, |dy| and their sum.                         *)
Dist(dx, dy) ==
    CHOOSE r \in Max(Abs(dx), Abs(dy))..(Abs(dx) + Abs(dy)) :
        r * r <= dx * dx + dy * dy /\ dx * dx + dy * dy < (r + 1) * (r + 1)

(* sum(distances) of _is_open_palm and _is_closed_fist *)
SumDistances(hand) ==
    LET d(k) == Dist(hand[fingertip_indices[k]][1] - hand[WRIST][1],
                     hand[fingertip_indices[k]][2] - hand[WRIST][2])
    IN d(1) + d(2) + d(3) + d(4) + d(5)

(* avg_dist > 0.12, with avg_dist = sum(distances) / len(distances) *)
IsOpenPalm(hand) == SumDistances(hand) > OpenPalmDist * Len(fingertip_indices)

(* avg_dist < 0.06 *)
IsClosedFist(hand) == SumDistances(hand) < ClosedFistDist * Len(fingertip_indices)

(* The pose helpers read every fingertip: they raise when one is missing.  *)
PoseRaises(hand) ==
    \E k \in 1..Len(fingertip_indices) : ~HasLandmark(hand, fingertip_indices[k])

(* current_position, doubled: (palm_center + thumb_tip) / 2 *)
CurrentPosition(hand) ==
    <<hand[WRIST][1] + hand[THUMB_TIP][1], hand[WRIST][2] + hand[THUMB_TIP][2]>>

(* movement = current_position - self.initial_position *)
Movement(cur, ref) == <<cur[1] - ref[1], cur[2] - ref[2]>>

(* the window assigned instead of appended to: only the newest sample *)
AppendHistory_Replace(mh, mv) == <<mv>>

(* the window appended to and never trimmed *)
AppendHistory_NoPop(mh, mv) == Append(mh, mv)

(* movement_history.append(movement), then pop(0) beyond the capacity *)
AppendHistory(mh, mv) ==
    IF Len(mh) + 1 > movement_history_size THEN Tail(Append(mh, mv))
    ELSE Append(mh, mv)

(* net_x, net_y: last_offset - first_offset *)
NetX(mh) == mh[Len(mh)][1] - mh[1][1]
NetY(mh) == mh[Len(mh)][2] - mh[1][2]

(* the ratio test always passed *)
RatioBelowHalf_Always(net_x, net_y) == TRUE

(* ratio < 0.5, where ratio = abs(net_y / net_x) if abs(net_x) > 1e-3 and  *)
(* 0.0 otherwise; in the doubled unit abs(net_x) > 1e-3 is net_x # 0.      *)
RatioBelowHalf(net_x, net_y) ==
    IF Abs(net_x) >= 1 THEN 2 * Abs(net_y) < Abs(net_x) ELSE TRUE

(* can_swipe without its cooldown conjunct *)
CanSwipe_NoCooldown(mh, t, lgt) ==
    /\ Len(mh) >= min_swipe_frames
    /\ Abs(NetX(mh)) > SwipeNetDist
    /\ RatioBelowHalf(NetX(mh), NetY(mh))

(* can_swipe without its window-length conjunct *)
CanSwipe_AnyLength(mh, t, lgt) ==
    /\ Abs(NetX(mh)) > SwipeNetDist
    /\ RatioBelowHalf(NetX(mh), NetY(mh))
    /\ t - lgt >= gesture_cooldown

(* can_swipe *)
CanSwipe(mh, t, lgt) ==
    /\ Len(mh) >= min_swipe_frames
    /\ Abs(NetX(mh)) > SwipeNetDist
    /\ RatioBelowHalf(NetX(mh), NetY(mh))
    /\ t - lgt >= gesture_cooldown

SwipeGesture(net_x) == IF net_x > 0 THEN "swipe_right" ELSE "swipe_left"

(* the volume test: window length, cooldown, vertical dominance, distance *)
CanVolume(mh, t, lgt) ==
    /\ Len(mh) >= min_swipe_frames
    /\ t - lgt >= gesture_cooldown
    /\ 2 * Abs(NetY(mh)) > 3 * Abs(NetX(mh))
    /\ Abs(NetY(mh)) > VerticalDist

(* the two directions exchanged *)
VolumeGesture_Reversed(net_y) == IF net_y < 0 THEN "volume_down" ELSE "volume_up"

VolumeGesture(net_y) == IF net_y < 0 THEN "volume_up" ELSE "volume_down"

(* the static poses tested once gesture_cooldown has elapsed *)
PoseTested_MotionCooldown(t, lgt) == t - lgt >= gesture_cooldown

(* the static poses are tested only once play_pause_cooldown has elapsed *)
PoseTested(t, lgt) == t - lgt >= play_pause_cooldown

(* the two poses exchanged *)
PoseGesture_Swapped(hand) ==
    IF IsOpenPalm(hand) THEN "pause"
    ELSE IF IsClosedFist(hand) THEN "play"
    ELSE None

PoseGesture(hand) ==
    IF IsOpenPalm(hand) THEN "play"
    ELSE IF IsClosedFist(hand) THEN "pause"
    ELSE None

-----------------------------------------------------------------------------
(* detect_gesture.  st is the tracker state [ip, mh, lgt] (reference       *)
(* position, window, last-gesture timestamp); the result is the state      *)
(* after the call and the returned gesture.                                *)

(* a gesture was found: the timestamp set, the window not cleared *)
Emit_KeepWindow(mh, t, g) ==
    [st |-> [ip |-> NoPosition, mh |-> mh, lgt |-> t], gesture |-> g]

(* a gesture was found: reference and window cleared, timestamp set; mh is *)
(* the window the call had built                                           *)
Emit(mh, t, g) ==
    [st |-> [ip |-> NoPosition, mh |-> <<>>, lgt |-> t], gesture |-> g]

(* no gesture: the window is kept and the reference is not moved *)
KeepTracking_FixedReference(st, cur, mh) ==
    [st |-> [ip |-> st.ip, mh |-> mh, lgt |-> st.lgt], gesture |-> None]

(* no gesture: the reference moves to the current position *)
KeepTracking(st, cur, mh) ==
    [st |-> [ip |-> cur, mh |-> mh, lgt |-> st.lgt], gesture |-> None]

(* first observation: the position becomes the reference *)
StartTracking(st, cur) ==
    [st |-> [ip |-> cur, mh |-> <<>>, lgt |-> st.lgt], gesture |-> None]

(* an except clause that resets the tracker as a frame without hands does *)
Raised_Resets(st, mh) ==
    [st |-> [ip |-> NoPosition, mh |-> <<>>, lgt |-> st.lgt], gesture |-> None]

(* an exception reached the except clause: what was assigned stays *)
Raised(st, mh) ==
    [st |-> [ip |-> st.ip, mh |-> mh, lgt |-> st.lgt], gesture |-> None]

(* "Update tracking": reset when a static gesture g was found, otherwise   *)
(* carry on from the current position                                      *)
UpdateTracking(st, cur, mh, t, g) ==
    IF g # None THEN Emit(mh, t, g) ELSE KeepTracking(st, cur, mh)

(* the tracked call with the static pose tested before the motion tests *)
DetectTracked_PoseFirst(st, hand, t, cur, mh) ==
    IF PoseTested(t, st.lgt) /\ PoseRaises(hand) THEN Raised(st, mh)
    ELSE IF PoseTested(t, st.lgt) /\ PoseGesture(hand) # None
    THEN Emit(mh, t, PoseGesture(hand))
    ELSE IF CanSwipe(mh, t, st.lgt) THEN Emit(mh, t, SwipeGesture(NetX(mh)))
    ELSE IF CanVolume(mh, t, st.lgt) THEN Emit(mh, t, VolumeGesture(NetY(mh)))
    ELSE KeepTracking(st, cur, mh)

(* the call once a reference is stored: cur is the current position and mh *)
(* the window with the new sample appended; swipe, then volume, then pose  *)
DetectTracked(st, hand, t, cur, mh) ==
    IF CanSwipe(mh, t, st.lgt) THEN Emit(mh, t, SwipeGesture(NetX(mh)))
    ELSE IF CanVolume(mh, t, st.lgt) THEN Emit(mh, t, VolumeGesture(NetY(mh)))
    ELSE IF PoseTested(t, st.lgt)
      THEN IF PoseRaises(hand) THEN Raised(st, mh)
           ELSE UpdateTracking(st, cur, mh, t, PoseGesture(hand))
    ELSE UpdateTracking(st, cur, mh, t, None)

DetectGesture(st, hand, t) ==
    IF ~(HasLandmark(hand, WRIST) /\ HasLandmark(hand, THUMB_TIP))
    THEN Raised(st, st.mh)
    ELSE IF st.ip = NoPosition THEN StartTracking(st, CurrentPosition(hand))
    ELSE DetectTracked(st, hand, t, CurrentPosition(hand),
                       AppendHistory(st.mh, Movement(CurrentPosition(hand), st.ip)))

-----------------------------------------------------------------------------
(* process_frame.  hands is results.multi_hand_landmarks of the frame (the *)
(* empty sequence when the estimator reports no hand).                     *)

(* the loop over the hands without its break: every hand is passed in and  *)
(* the result of the last one is returned                                  *)
RECURSIVE FeedHands_NoBreak(_, _, _, _)
FeedHands_NoBreak(st, hands, i, t) ==
    IF i > Len(hands)
    THEN [st |-> st, gesture |-> None, fed |-> Len(hands), emits |-> 0]
    ELSE LET r == DetectGesture(st, hands[i], t)
             rest == FeedHands_NoBreak(r.st, hands, i + 1, t)
         IN [st |-> rest.st,
             gesture |-> IF i = Len(hands) THEN r.gesture ELSE rest.gesture,
             fed |-> Len(hands),
             emits |-> rest.emits + (IF r.gesture # None THEN 1 ELSE 0)]

(* the loop over the hands: detect_gesture on each in turn, stopping at    *)
(* the first one that returns a gesture; fed counts the hands passed in    *)
RECURSIVE FeedHands(_, _, _, _)
FeedHands(st, hands, i, t) ==
    IF i > Len(hands)
    THEN [st |-> st, gesture |-> None, fed |-> Len(hands), emits |-> 0]
    ELSE LET r == DetectGesture(st, hands[i], t) IN
         IF r.gesture # None
         THEN [st |-> r.st, gesture |-> r.gesture, fed |-> i, emits |-> 1]
         ELSE FeedHands(r.st, hands, i + 1, t)

(* no hand detected, the window not cleared *)
NoHandReset_KeepWindow(st) == [ip |-> NoPosition, mh |-> st.mh, lgt |-> st.lgt]

(* no hand detected: position tracking is reset *)
NoHandReset(st) == [ip |-> NoPosition, mh |-> <<>>, lgt |-> st.lgt]

(* reading the wrists of the first two hands raises when one has none *)
QuitCheckRaises(hands) ==
    Len(hands) >= 2 /\ ~(HasLandmark(hands[1], WRIST) /\ HasLandmark(hands[2], WRIST))

(* the comparison of the wrists turned round *)
QuitCondition_Below(hands) ==
    /\ Len(hands) >= 2
    /\ hands[1][WRIST][2] > QuitWristY
    /\ hands[2][WRIST][2] > QuitWristY

(* both hands raised: the wrists of the first two hands above y = 0.3 *)
QuitCondition(hands) ==
    /\ Len(hands) >= 2
    /\ hands[1][WRIST][2] < QuitWristY
    /\ hands[2][WRIST][2] < QuitWristY

(* frame_skip_count += 1, modulo process_every_n_frames *)
NextSkipCount(fsc) == (fsc + 1) % process_every_n_frames

(* every other frame classified *)
Skipped_EveryOther(fsc) == NextSkipCount(fsc) % 2 # 0

(* the frame is classified only when the count is a multiple of n *)
Skipped(fsc) == NextSkipCount(fsc) % process_every_n_frames # 0

(* the part of process_frame after the frame skipping *)
Classify(st, hands, t) ==
    IF QuitCheckRaises(hands)
    THEN [st |-> st, gesture |-> None, fed |-> 0, emits |-> 0]
    ELSE IF QuitCondition(hands)
    THEN [st |-> st, gesture |-> "quit", fed |-> 0, emits |-> 0]
    ELSE IF Len(hands) > 0
    THEN FeedHands(st, hands, 1, t)
    ELSE [st |-> NoHandReset(st), gesture |-> None, fed |-> 0, emits |-> 0]

ProcessFrame(st, fsc, hands, t) ==
    IF Skipped(fsc)
    THEN [st |-> st, fsc |-> NextSkipCount(fsc), gesture |-> None,
          hands |-> 0, fed |-> 0, emits |-> 0]
    ELSE LET r == Classify(st, hands, t) IN
         [st |-> r.st, fsc |-> NextSkipCount(fsc), gesture |-> r.gesture,
          hands |-> Len(hands), fed |-> r.fed, emits |-> r.emits]

-----------------------------------------------------------------------------
(* The frames the estimator can report.  A well-formed hand is placed by   *)
(* the midpoint p of wrist and thumb tip (the thumb tip 4 hundredths above *)
(* the wrist) and by its pose, which sets the other four fingertips.       *)

PosA == <<30, 50>>
PosB == <<35, 51>>
PosC == <<42, 50>>
PosD == <<42, 20>>      \* raised: the wrist is above y = 0.3
Positions == {PosA, PosB, PosC, PosD}
PosE == <<32, 51>>      \* PosA moved by (0.02, 0.01): jitter
Poses == {"neutral", "open", "fist"}

(* fingertip offsets from the wrist, for landmarks 8, 12, 16, 20 *)
TipOffsets(pose) ==
    CASE pose = "open"    -> << <<-8, -15>>, <<0, -18>>, <<0, -18>>, <<0, -18>> >>
      [] pose = "fist"    -> << <<0, -4>>, <<0, -4>>, <<0, -4>>, <<0, -4>> >>
      [] pose = "neutral" -> << <<6, -8>>, <<0, -10>>, <<0, -10>>, <<0, -10>> >>

Hand(p, pose) ==
    LET w == <<p[1], p[2] + 2>>
        o == TipOffsets(pose)
    IN (0 :> w) @@ (4 :> <<p[1], p[2] - 2>>)
         @@ (8 :> <<w[1] + o[1][1], w[2] + o[1][2]>>)
         @@ (12 :> <<w[1] + o[2][1], w[2] + o[2][2]>>)
         @@ (16 :> <<w[1] + o[3][1], w[2] + o[3][2]>>)
         @@ (20 :> <<w[1] + o[4][1], w[2] + o[4][2]>>)

(* malformed hands: no landmark at all; wrist to thumb tip only (5 of 21) *)
EmptyHand == <<>>
ShortHand(p) == (0 :> Hand(p, "neutral")[0]) @@ (4 :> Hand(p, "neutral")[4])

WellFormedHands == {Hand(p, pose) : p \in Positions, pose \in Poses}
MalformedHands == {EmptyHand} \cup {ShortHand(p) : p \in {PosA, PosC, PosD}}

SingleFrames == {<<h>> : h \in WellFormedHands \cup MalformedHands}

MultiFrames ==
    { <<Hand(PosD, "neutral"), Hand(PosD, "open")>>,
      <<Hand(PosD, "open"), Hand(PosD, "fist"), Hand(PosA, "open")>>,
      <<Hand(PosD, "neutral"), ShortHand(PosD)>>,
      <<Hand(PosA, "neutral"), Hand(PosD, "neutral")>>,
      <<Hand(PosD, "neutral"), Hand(PosA, "neutral")>>,
      <<Hand(PosA, "neutral"), Hand(PosA, "open")>>,
      <<Hand(PosA, "neutral"), Hand(PosC, "neutral")>>,
      <<Hand(PosA, "open"), Hand(PosC, "neutral")>>,
      <<EmptyHand, Hand(PosA, "open")>>,
      <<ShortHand(PosA), Hand(PosC, "fist")>> }

Frames == {<<>>} \cup SingleFrames \cup MultiFrames

-----------------------------------------------------------------------------
(* SpotifyController.handle_gesture.  ctl is the controller state [lg, lgt] *)
(* (last_gesture, last_gesture_time); the result is the state after the    *)
(* call and the playback method the call invoked (None when it invoked     *)
(* none).                                                                  *)

gesture_repeat_cooldown == 10

(* the playback methods handle_gesture can invoke *)
Actions == {"play", "pause", "next_track", "previous_track"}

(* the if/elif chain of handle_gesture; a gesture without a branch invokes *)
(* nothing                                                                 *)
GestureAction(g) ==
    CASE g = "play" -> "play"
      [] g = "pause" -> "pause"
      [] g = "swipe_right" -> "next_track"
      [] g = "swipe_left" -> "previous_track"
      [] OTHER -> None

(* "Skip if same gesture repeated too quickly" *)
Repeated(ctl, g, t) == g = ctl.lg /\ t - ctl.lgt < gesture_repeat_cooldown

(* handle_gesture without the check for a repeated gesture *)
HandleGesture_NoCooldown(ctl, g, t) ==
    [ctl |-> [lg |-> g, lgt |-> t], action |-> GestureAction(g)]

HandleGesture(ctl, g, t) ==
    IF Repeated(ctl, g, t) THEN [ctl |-> ctl, action |-> None]
    ELSE [ctl |-> [lg |-> g, lgt |-> t], action |-> GestureAction(g)]

-----------------------------------------------------------------------------
(* The state machine *)

TrackerState ==
    [ip |-> initial_position, mh |-> movement_history, lgt |-> last_gesture_time]

InitProgram ==
    /\ initial_position = NoPosition
    /\ movement_history = <<>>
    /\ last_gesture_time = 0
    /\ frame_skip_count = 0
    /\ now = StartTime
    /\ gesture = None
    /\ n_hands = 0
    /\ n_fed = 0
    /\ n_emit = 0
    /\ emitted = [motion |-> <<NoTime, NoTime>>, static |-> <<NoTime, NoTime>>]
    /\ running = TRUE
    /\ ctl_last_gesture = None
    /\ ctl_last_gesture_time = 0
    /\ action = None
    /\ before = [lg |-> None, lgt |-> 0]
    /\ gap = NoTime
    /\ calls_since_reset = 0
    /\ emit_call = 0

(* the state after construction, with a hand at rest *)
Init == InitProgram /\ hand_pos = PosA /\ velocity = <<0, 0>>

(* the history of emissions after a call that returned g at time t *)
Record(hist, g, t) ==
    IF g \in MotionGestures THEN [hist EXCEPT !.motion = <<@[2], t>>]
    ELSE IF g \in StaticGestures THEN [hist EXCEPT !.static = <<@[2], t>>]
    ELSE hist

(* one call of process_frame on a frame showing the hands `hands` *)
ProcessFrameCall(hands) ==
    \E r \in {ProcessFrame(TrackerState, frame_skip_count, hands, now)} :
    /\ initial_position' = r.st.ip
    /\ movement_history' = r.st.mh
    /\ last_gesture_time' = r.st.lgt
    /\ frame_skip_count' = r.fsc
    /\ gesture' = r.gesture
    /\ n_hands' = r.hands
    /\ n_fed' = r.fed
    /\ n_emit' = r.emits
    /\ UNCHANGED now

(* time passes between two calls: the clock moves to a later instant *)
Tick(t) ==
    /\ t > now
    /\ now' = t
    /\ UNCHANGED <<detector, emitted, controller, glide, warmup>>

Next ==
    \/ \E hands \in Frames :
          ProcessFrameCall(hands) /\ UNCHANGED <<emitted, controller, glide, warmup>>
    \/ \E t \in Instants : Tick(t)

Spec == Init /\ [][Next]_vars

(* The same machine, with the times of the emitted gestures recorded. *)
NextHistory ==
    \/ \E hands \in Frames :
          /\ ProcessFrameCall(hands)
          /\ emitted' = Record(emitted, gesture', now)
          /\ UNCHANGED <<controller, glide, warmup>>
    \/ \E t \in Instants : Tick(t)

SpecHistory == Init /\ [][NextHistory]_vars

-----------------------------------------------------------------------------
(* The loop of main: each iteration reads a frame, passes it to            *)
(* process_frame, hands a gesture to handle_gesture and polls the keyboard. *)

(* the frames of the loop: enough to make the detector return each of its  *)
(* seven gestures                                                          *)
MainFrames ==
    { <<>>,
      <<Hand(PosA, "neutral")>>, <<Hand(PosC, "neutral")>>, <<Hand(PosD, "neutral")>>,
      <<Hand(PosA, "open")>>, <<Hand(PosA, "fist")>>,
      <<Hand(PosD, "neutral"), Hand(PosD, "open")>> }

(* the instants at which the loop reads the clock: the start and 0.3 s,    *)
(* 0.6 s and 1.0 s later                                                   *)
MainInstants ==
    {StartTime + d : d \in {0, gesture_cooldown, 2 * gesture_cooldown,
                            gesture_repeat_cooldown}}

ControllerState == [lg |-> ctl_last_gesture, lgt |-> ctl_last_gesture_time]

(* the histories after a call of handle_gesture at time t that left the    *)
(* controller in state ctl and invoked a: the controller state it replaced *)
(* is remembered, and the time since the method was invoked for the        *)
(* gesture processed before that one                                       *)
RecordAction(ctl, a, t) ==
    /\ before' = IF ctl = ControllerState THEN before ELSE ControllerState
    /\ gap' = IF a # None /\ a = GestureAction(before.lg) /\ ctl # ControllerState
              THEN t - before.lgt
              ELSE NoTime

(* music_controller.handle_gesture(g) *)
HandleGestureCall(g) ==
    \E r \in {HandleGesture(ControllerState, g, now)} :
    /\ ctl_last_gesture' = r.ctl.lg
    /\ ctl_last_gesture_time' = r.ctl.lgt
    /\ action' = r.action
    /\ RecordAction(r.ctl, r.action, now)

(* cap.read() fails: the loop is left *)
ReadFails ==
    /\ running
    /\ running' = FALSE
    /\ UNCHANGED <<detector, now, emitted, ctl_last_gesture,
                   ctl_last_gesture_time, action, before, gap, glide, warmup>>

(* one iteration on a frame showing `hands`; q tells whether the key q is  *)
(* down when cv2.waitKey polls at the end of the iteration                 *)
MainLoopIteration(hands, q) ==
    /\ running
    /\ ProcessFrameCall(hands)
    /\ IF gesture' # None
       THEN HandleGestureCall(gesture')
       ELSE UNCHANGED <<ctl_last_gesture, ctl_last_gesture_time, action,
                        before, gap>>
    /\ running' = ~q
    /\ UNCHANGED <<emitted, glide, warmup>>

(* time passes while the loop runs *)
MainTick(t) == running /\ Tick(t)

NextMain ==
    \/ \E hands \in MainFrames, q \in BOOLEAN : MainLoopIteration(hands, q)
    \/ ReadFails
    \/ \E t \in MainInstants : MainTick(t)

SpecMain == Init /\ [][NextMain]_vars

-----------------------------------------------------------------------------
(* A single hand that jitters: it is seen at PosA or at PosE, 0.02 to the  *)
(* right and 0.01 below, in neutral pose or, at PosA, as an open palm; it  *)
(* may leave the frame.                                                    *)

JitterHands == {Hand(PosA, "neutral"), Hand(PosE, "neutral"), Hand(PosA, "open")}

JitterFrames == {<<>>} \cup {<<h>> : h \in JitterHands}

NextJitter ==
    \/ \E hands \in JitterFrames :
          ProcessFrameCall(hands) /\ UNCHANGED <<emitted, controller, glide, warmup>>
    \/ \E t \in Instants : Tick(t)

SpecJitter == Init /\ [][NextJitter]_vars

-----------------------------------------------------------------------------
(* A single hand in neutral pose that glides across the frame: it moves by *)
(* the same displacement from each frame to the next, so by                *)
(* process_every_n_frames times that between two detect_gesture calls.     *)

(* where the hand starts and what it moves by per frame, in hundredths *)
GlideStarts == {<<50, 50>>, <<2, 50>>, <<98, 50>>, <<50, 98>>, <<2, 2>>}
Velocities ==
    {<<3, 0>>, <<-3, 0>>, <<0, 3>>, <<0, -3>>, <<3, 3>>, <<1, 0>>, <<3, -1>>, <<0, 0>>}

(* the reference point stays where both landmarks are inside the frame *)
InView(p) == p[1] \in 2..98 /\ p[2] \in 2..98

InitGlide == InitProgram /\ hand_pos \in GlideStarts /\ velocity \in Velocities

(* process_frame on the frame that shows the hand, which then moves on *)
GlideCall ==
    /\ InView(hand_pos)
    /\ ProcessFrameCall(<<Hand(hand_pos, "neutral")>>)
    /\ hand_pos' = <<hand_pos[1] + velocity[1], hand_pos[2] + velocity[2]>>
    /\ UNCHANGED <<velocity, emitted, controller, warmup>>

NextGlide ==
    \/ GlideCall
    \/ \E t \in Instants : Tick(t)

SpecGlide == InitGlide /\ [][NextGlide]_vars

-----------------------------------------------------------------------------
(* The motion tests on arbitrary windows.  The detector has a reference at *)
(* WindowRef and two samples in its window; the hand has moved to hand_pos,*)
(* up to MaxOffset hundredths from the reference in x and in y, and rests  *)
(* there (velocity 0), so the next classified call appends its             *)
(* displacement as the third sample.                                       *)

MaxOffset == 20

WindowRef == <<50, 50>>

(* windows of two samples: the hand at rest, or after a small movement *)
StartWindows ==
    { << <<0, 0>>, <<0, 0>> >>,
      << <<4, -6>>, <<0, 0>> >>,
      << <<-10, 8>>, <<2, 2>> >> }

ProbePositions ==
    { <<WindowRef[1] + dx, WindowRef[2] + dy>> :
          dx \in (0 - MaxOffset)..MaxOffset, dy \in (0 - MaxOffset)..MaxOffset }

InitWindow ==
    /\ initial_position = <<2 * WindowRef[1], 2 * WindowRef[2]>>
    /\ movement_history \in StartWindows
    /\ last_gesture_time = 0
    /\ frame_skip_count = 0
    /\ now = StartTime
    /\ gesture = None
    /\ n_hands = 1
    /\ n_fed = 1
    /\ n_emit = 0
    /\ emitted = [motion |-> <<NoTime, NoTime>>, static |-> <<NoTime, NoTime>>]
    /\ running = TRUE
    /\ ctl_last_gesture = None
    /\ ctl_last_gesture_time = 0
    /\ action = None
    /\ before = [lg |-> None, lgt |-> 0]
    /\ gap = NoTime
    /\ calls_since_reset = 3
    /\ emit_call = 0
    /\ hand_pos \in ProbePositions
    /\ velocity = <<0, 0>>

SpecWindow == InitWindow /\ [][NextGlide]_vars

-----------------------------------------------------------------------------
(* The same machine, with the detect_gesture calls counted since the       *)
(* tracker was last reset: by a returned swipe, volume, play or pause      *)
(* (lines 186-188) or by a classified frame without a hand (lines 239-241).*)
(* The count stops at MaxCalls.                                            *)

MaxCalls == 5

Min(a, b) == IF a < b THEN a ELSE b

(* the tracker was reset by the call that returned r *)
ResetBy(r) == r.gesture \in MotionGestures \cup StaticGestures

(* the count after a call that returned r; skipped tells it was skipped *)
CallsAfter(calls, skipped, r) ==
    IF skipped THEN calls
    ELSE IF ResetBy(r) \/ r.hands = 0 THEN 0
    ELSE Min(calls + r.fed, MaxCalls)

(* which call since the reset returned the gesture of r, 0 when none did *)
EmittingCall(calls, r) ==
    IF ResetBy(r) THEN Min(calls + r.fed, MaxCalls) ELSE 0

WarmupCall(hands) ==
    /\ ProcessFrameCall(hands)
    /\ \E r \in {ProcessFrame(TrackerState, frame_skip_count, hands, now)} :
          /\ calls_since_reset' =
                CallsAfter(calls_since_reset, Skipped(frame_skip_count), r)
          /\ emit_call' = EmittingCall(calls_since_reset, r)
    /\ UNCHANGED <<emitted, controller, glide>>

NextWarmup ==
    \/ \E hands \in Frames : WarmupCall(hands)
    \/ \E t \in Instants : Tick(t)

SpecWarmup == Init /\ [][NextWarmup]_vars

-----------------------------------------------------------------------------
(* A single motionless hand held with an open palm: every frame shows it   *)
(* at PosA.  The loop of main calls process_frame again and again (while   *)
(* True, line 50), so the call is weakly fair; the clock read at line 80   *)
(* keeps advancing, by any number of tenths of a second, until MaxTime.    *)
(* The times of the returned gestures are recorded.                        *)

HoldFrame == <<Hand(PosA, "open")>>

HoldInstants == StartTime..MaxTime

HoldCall ==
    /\ ProcessFrameCall(HoldFrame)
    /\ emitted' = Record(emitted, gesture', now)
    /\ UNCHANGED <<controller, glide, warmup>>

HoldTick == \E t \in HoldInstants : Tick(t)

NextHold ==
    \/ HoldCall
    \/ HoldTick

SpecHold ==
    Init /\ [][NextHold]_vars /\ WF_vars(HoldCall) /\ WF_vars(HoldTick)

-----------------------------------------------------------------------------
(* Properties *)

(* twice a position given in hundredths: the unit of current_position *)
Twice(p) == <<2 * p[1], 2 * p[2]>>

(* the call under way is classified, not skipped *)
Classifying == ~Skipped(frame_skip_count)

(* C1: cooldown monotonicity.  With non-decreasing call times, two motion  *)
(* gestures emitted at t1 < t2 are at least gesture_cooldown apart and two *)
(* static gestures at least play_pause_cooldown apart.  emitted holds the  *)
(* times of the last two emissions of each class; consecutive emissions    *)
(* bound every earlier pair because the clock never goes back.             *)
C1_CooldownMonotonicity ==
    /\ (emitted.motion[1] # NoTime /\ emitted.motion[1] < emitted.motion[2])
          => emitted.motion[2] - emitted.motion[1] >= gesture_cooldown
    /\ (emitted.static[1] # NoTime /\ emitted.static[1] < emitted.static[2])
          => emitted.static[2] - emitted.static[1] >= play_pause_cooldown

(* two motion gestures were emitted, exactly gesture_cooldown apart *)
C1_Witness ==
    /\ emitted.motion[1] # NoTime
    /\ emitted.motion[2] - emitted.motion[1] = gesture_cooldown
    /\ gesture \in MotionGestures

(* the wrists of the first two of at least two hands are above y = 0.3 *)
BothWristsRaised(hands) ==
    /\ Len(hands) >= 2
    /\ \A k \in 1..2 : HasLandmark(hands[k], WRIST) /\ hands[k][WRIST][2] < QuitWristY

(* C2: quit priority.  On every classified call whose frame shows at least *)
(* two hands with the wrists of the first two above y = 0.3 the result is  *)
(* quit, in every reachable state of reference, window, timestamp and      *)
(* clock and for every pose and position of the hands.                     *)
C2_QuitPriority ==
    \A hands \in Frames :
        (Classifying /\ BothWristsRaised(hands)) =>
            ProcessFrame(TrackerState, frame_skip_count, hands, now).gesture = "quit"

(* quit was returned while a hand was tracked with samples in the window   *)
(* and inside both cooldowns                                               *)
C2_Witness ==
    /\ gesture = "quit"
    /\ n_hands >= 2
    /\ initial_position # NoPosition
    /\ movement_history # <<>>
    /\ last_gesture_time > 0
    /\ now - last_gesture_time < gesture_cooldown

(* the state after the first two calls of the swipe-right scenario: the    *)
(* reference at (0.35, 0.51), one sample (0.05, 0.01), no gesture so far   *)
ScenarioAfterTwoCalls ==
    /\ initial_position = Twice(PosB)
    /\ movement_history = << Movement(Twice(PosB), Twice(PosA)) >>
    /\ last_gesture_time = 0

(* C3 as stated: after reference points (0.3,0.5) and (0.35,0.51) from a   *)
(* fresh classifier, the call with (0.42,0.50) returns swipe_right.        *)
C3_ThirdCallSwipesRight ==
    ScenarioAfterTwoCalls =>
        DetectGesture(TrackerState, Hand(PosC, "neutral"), now).gesture = "swipe_right"

(* C3 amended: the third call of the scenario returns no swipe.  The first *)
(* call only stores the reference, so the window then holds two samples,   *)
(* (0.05, 0.01) and (0.07, -0.01), fewer than min_swipe_frames; for a hand *)
(* in neutral pose the call returns no gesture and moves the reference.    *)
C3_ThirdCallNoSwipe ==
    ScenarioAfterTwoCalls =>
        /\ \A pose \in Poses :
              DetectGesture(TrackerState, Hand(PosC, pose), now).gesture
                  \notin MotionGestures
        /\ \A r \in {DetectGesture(TrackerState, Hand(PosC, "neutral"), now)} :
              /\ r.gesture = None
              /\ r.st.ip = Twice(PosC)
              /\ r.st.mh = << <<10, 2>>, <<14, -2>> >>
              /\ Len(r.st.mh) < min_swipe_frames

(* the state after the three calls of the scenario *)
C3_Witness ==
    /\ initial_position = Twice(PosC)
    /\ movement_history = << <<10, 2>>, <<14, -2>> >>
    /\ last_gesture_time = 0
    /\ gesture = None
    /\ n_hands = 1

(* C4 as stated: after a call that returned any gesture, quit included,    *)
(* the reference is absent and the window is empty.                        *)
C4_ResetAfterAnyGesture ==
    gesture \in Gestures =>
        initial_position = NoPosition /\ movement_history = <<>>

(* C4 amended: after a call that returned a swipe, volume, play or pause   *)
(* gesture the reference is absent and the window is empty; a call that    *)
(* returns quit leaves reference, window and timestamp as they were.       *)
C4_ResetAfterDetectedGesture ==
    /\ gesture \in MotionGestures \cup StaticGestures =>
          initial_position = NoPosition /\ movement_history = <<>>
    /\ \A hands \in Frames :
          \A r \in {ProcessFrame(TrackerState, frame_skip_count, hands, now)} :
              r.gesture = "quit" => r.st = TrackerState

(* a swipe was returned, which takes a full window, and the tracker is     *)
(* reset                                                                   *)
C4_Witness ==
    /\ gesture \in {"swipe_left", "swipe_right"}
    /\ initial_position = NoPosition
    /\ movement_history = <<>>
    /\ last_gesture_time = now

(* the frame shows several hands and the quit test neither fires nor      *)
(* raises                                                                  *)
SeveralHandsNoQuit(hands) ==
    /\ Len(hands) >= 2
    /\ \A k \in 1..2 : HasLandmark(hands[k], WRIST)
    /\ ~BothWristsRaised(hands)

(* the first k hands of a frame *)
FirstHands(hands, k) == SubSeq(hands, 1, k)

(* C5 as stated: on a frame with several hands that does not satisfy the   *)
(* quit condition only the first hand is classified; the later hands       *)
(* change neither the returned gesture nor reference, window or timestamp. *)
C5_FirstHandOnly ==
    \A hands \in MultiFrames :
        SeveralHandsNoQuit(hands) =>
            \A r \in {Classify(TrackerState, hands, now)} :
            \A r1 \in {Classify(TrackerState, FirstHands(hands, 1), now)} :
                r.gesture = r1.gesture /\ r.st = r1.st

(* C5 amended: on such a frame the hands are passed to detect_gesture in   *)
(* order until one returns a gesture.  Every hand before that one returned *)
(* no gesture and has updated reference and window; only the hands after   *)
(* it are ignored, and they change neither the returned gesture nor        *)
(* reference, window or timestamp.                                         *)
C5_HandsUntilFirstGesture ==
    \A hands \in MultiFrames :
        SeveralHandsNoQuit(hands) =>
            \A r \in {Classify(TrackerState, hands, now)} :
                /\ r.fed \in 1..Len(hands)
                /\ \A k \in 1..(r.fed - 1) :
                      Classify(TrackerState, FirstHands(hands, k), now).gesture = None
                /\ r.fed < Len(hands) => r.gesture # None
                /\ \A rp \in {Classify(TrackerState, FirstHands(hands, r.fed), now)} :
                      r.gesture = rp.gesture /\ r.st = rp.st

(* a frame of several hands returned a gesture from a hand that was not    *)
(* the last: the hands after it were not passed in                         *)
C5_Witness ==
    /\ n_hands >= 2
    /\ n_fed < n_hands
    /\ n_fed >= 1
    /\ gesture \in StaticGestures

(* C6: at most one gesture per call.  Every call of process_frame returns  *)
(* no gesture or one gesture of the closed set, and at most one            *)
(* detect_gesture call of it emits (sets the timestamp), also on frames    *)
(* with several hands; the gesture returned is the one emitted.            *)
C6_AtMostOneGesture ==
    /\ gesture \in Gestures \cup {None}
    /\ n_emit \in {0, 1}
    /\ n_emit = 1 <=> gesture \in MotionGestures \cup StaticGestures

(* a frame with several hands returned one gesture with one emission *)
C6_Witness ==
    /\ n_hands >= 2
    /\ n_fed >= 1
    /\ n_emit = 1
    /\ gesture \in StaticGestures
    /\ last_gesture_time = now

(* C7: window bound.  The window never holds more than                     *)
(* movement_history_size samples, and a sample appended to a full window   *)
(* drops the oldest one: the window becomes its last two samples followed  *)
(* by the new one.                                                         *)
C7_WindowBound ==
    /\ Len(movement_history) <= movement_history_size
    /\ \A h \in WellFormedHands :
          (initial_position # NoPosition
              /\ Len(movement_history) = movement_history_size) =>
            \A r \in {DetectGesture(TrackerState, h, now)} :
                r.gesture = None =>
                    r.st.mh = Tail(movement_history)
                                \o << Movement(CurrentPosition(h), initial_position) >>

(* a tracked call left a full window behind without emitting *)
C7_Witness ==
    /\ Len(movement_history) = movement_history_size
    /\ initial_position # NoPosition
    /\ gesture = None
    /\ n_fed = 1
    /\ movement_history[1] # movement_history[3]

(* every hand of the frame has the wrist and thumb-tip landmarks *)
HandsTrackable(hands) ==
    \A k \in 1..Len(hands) :
        HasLandmark(hands[k], WRIST) /\ HasLandmark(hands[k], THUMB_TIP)

(* what an empty observation list does: no gesture, reference absent,      *)
(* window empty                                                            *)
EmptyFrameResets ==
    \A r \in {Classify(TrackerState, <<>>, now)} :
        r.gesture = None /\ r.st.ip = NoPosition /\ r.st.mh = <<>>

(* the tracker as an empty observation list leaves it *)
TrackerReset == initial_position = NoPosition /\ movement_history = <<>>

(* C8 as stated: an empty observation list returns no gesture and leaves   *)
(* the reference absent and the window empty, and the next call that       *)
(* observes a hand only stores its position as the new reference and       *)
(* returns no gesture.                                                     *)
C8_NoHandThenReference ==
    /\ EmptyFrameResets
    /\ TrackerReset =>
          \A hands \in Frames :
              (Len(hands) >= 1 /\ HandsTrackable(hands)) =>
                  \A r \in {Classify(TrackerState, hands, now)} :
                      /\ r.gesture = None
                      /\ r.st.ip = CurrentPosition(hands[1])
                      /\ r.st.mh = <<>>

(* C8 amended: an empty observation list returns no gesture and leaves the *)
(* reference absent and the window empty; the next call that observes      *)
(* exactly one hand only stores its position as the new reference and      *)
(* returns no gesture, with an empty window and the timestamp unchanged,   *)
(* so no displacement is computed against a position seen before the gap.  *)
C8_NoHandThenSingleHand ==
    /\ EmptyFrameResets
    /\ TrackerReset =>
          \A hands \in SingleFrames :
              HandsTrackable(hands) =>
                  \A r \in {Classify(TrackerState, hands, now)} :
                      /\ r.gesture = None
                      /\ r.st.ip = CurrentPosition(hands[1])
                      /\ r.st.mh = <<>>
                      /\ r.st.lgt = last_gesture_time

(* a single hand was observed on a classified call after the tracker had   *)
(* been reset, some time after a gesture: only the reference was stored    *)
C8_Witness ==
    /\ frame_skip_count = 0
    /\ n_hands = 1
    /\ n_fed = 1
    /\ gesture = None
    /\ initial_position # NoPosition
    /\ movement_history = <<>>
    /\ last_gesture_time > 0
    /\ now > last_gesture_time

ReachesPoseTest(h) ==
    /\ initial_position # NoPosition
    /\ PoseTested(now, last_gesture_time)
    /\ DetectGesture(TrackerState, h, now).gesture = None

C10_BadFrameHarmless ==
    \A h \in MalformedHands :
        \A r \in {Classify(TrackerState, <<h>>, now)} :
            /\ r.gesture = None
            /\ r.st.lgt = last_gesture_time
            /\ \/ r.st.ip = initial_position
               \/ HandsTrackable(<<h>>) /\ r.st.ip = CurrentPosition(h)
            /\ \/ r.st.mh = movement_history
               \/ /\ HandsTrackable(<<h>>)
                  /\ initial_position # NoPosition
                  /\ r.st.mh = AppendHistory(movement_history,
                                   Movement(CurrentPosition(h), initial_position))

(* the window the call builds is too short for a swipe *)
WindowTooShort == Len(movement_history) + 1 < min_swipe_frames

(* the hands of the static-pose scenarios: average wrist-to-fingertip      *)
(* distance 0.15 for the open palm and 0.04 for the fist                   *)
ScenarioPoses ==
    \A p \in Positions :
        /\ SumDistances(Hand(p, "open")) = 15 * Len(fingertip_indices)
        /\ SumDistances(Hand(p, "fist")) = 4 * Len(fingertip_indices)

(* C11 as stated: on a classified single-hand call made when play_pause_cooldown has  *)
(* elapsed since the last gesture and the window is too short for a swipe, *)
(* the hand of average distance 0.15 returns play and the hand of average  *)
(* distance 0.04 returns pause.                                            *)
C11_StaticPoseAnyCall ==
    /\ ScenarioPoses
    /\ (Classifying /\ PoseTested(now, last_gesture_time) /\ WindowTooShort) =>
          \A p \in Positions :
              /\ Classify(TrackerState, <<Hand(p, "open")>>, now).gesture = "play"
              /\ Classify(TrackerState, <<Hand(p, "fist")>>, now).gesture = "pause"

(* C11 amended: the same on a call made while a reference position is      *)
(* stored; the gesture sets the timestamp to the call time and resets      *)
(* reference and window.  A call made without a stored reference only      *)
(* stores the reference and returns no gesture, whatever the pose.         *)
C11_StaticPoseTrackedCall ==
    /\ ScenarioPoses
    /\ (Classifying /\ PoseTested(now, last_gesture_time) /\ WindowTooShort) =>
          \A p \in Positions :
          \A ro \in {Classify(TrackerState, <<Hand(p, "open")>>, now)} :
          \A rf \in {Classify(TrackerState, <<Hand(p, "fist")>>, now)} :
              IF initial_position # NoPosition
              THEN /\ ro.gesture = "play"
                   /\ rf.gesture = "pause"
                   /\ ro.st = NoHandReset([TrackerState EXCEPT !.lgt = now])
                   /\ rf.st = ro.st
              ELSE /\ ro.gesture = None
                   /\ rf.gesture = None
                   /\ ro.st.ip = Twice(p)

(* the reference is at (0.30, 0.50) with an empty window,                  *)
(* play_pause_cooldown has elapsed since an earlier gesture, and the call  *)
(* about to be classified returns play for the open palm and pause for the *)
(* fist                                                                    *)
C11_Witness ==
    /\ Classifying
    /\ initial_position = Twice(PosA)
    /\ movement_history = <<>>
    /\ last_gesture_time > 0
    /\ now - last_gesture_time >= play_pause_cooldown
    /\ DetectGesture(TrackerState, Hand(PosC, "open"), now).gesture = "play"
    /\ DetectGesture(TrackerState, Hand(PosC, "fist"), now).gesture = "pause"

(* the reference point of hand h is more than 0.08 away from the stored    *)
(* reference in x or in y                                                  *)
Displaced(h) ==
    \E k \in 1..2 :
        Abs(Movement(CurrentPosition(h), initial_position)[k]) > SwipeNetDist

(* C12 as stated: no call returns play or pause when the hand is displaced *)
(* from the stored reference by more than the motion threshold on that     *)
(* call, whatever the length of the window.                                *)
C12_MovingHandNeverStatic ==
    \A h \in WellFormedHands :
        (Classifying /\ initial_position # NoPosition /\ Displaced(h)) =>
            DetectGesture(TrackerState, h, now).gesture \notin StaticGestures

(* the window a tracked call builds from hand h *)
WindowWith(h) ==
    AppendHistory(movement_history, Movement(CurrentPosition(h), initial_position))

(* C12 amended: no call returns play or pause when the swipe test or the   *)
(* vertical-pan test fires on that call: a call on which a motion test     *)
(* fires returns that motion gesture also for an open palm or a fist with  *)
(* play_pause_cooldown elapsed.  Displacement alone does not suppress the  *)
(* static pose.                                                            *)
C12_MotionTestBeforeStatic ==
    \A h \in WellFormedHands :
        (Classifying /\ initial_position # NoPosition) =>
            \A r \in {DetectGesture(TrackerState, h, now)} :
            \A mh \in {WindowWith(h)} :
                /\ CanSwipe(mh, now, last_gesture_time)
                      => r.gesture = SwipeGesture(NetX(mh))
                /\ (~CanSwipe(mh, now, last_gesture_time)
                      /\ CanVolume(mh, now, last_gesture_time))
                      => r.gesture = VolumeGesture(NetY(mh))
                /\ r.gesture \in StaticGestures =>
                      /\ ~CanSwipe(mh, now, last_gesture_time)
                      /\ ~CanVolume(mh, now, last_gesture_time)

(* a hand is tracked, play_pause_cooldown has elapsed, and an open palm or *)
(* a fist shown now returns a motion gesture                               *)
C12_Witness ==
    /\ Classifying
    /\ initial_position # NoPosition
    /\ PoseTested(now, last_gesture_time)
    /\ \E h \in WellFormedHands :
          /\ PoseGesture(h) # None
          /\ DetectGesture(TrackerState, h, now).gesture \in MotionGestures

(* the net displacement of the jitter scenario: (0.02, 0.01) *)
JitterNet(mh) ==
    Len(mh) = movement_history_size /\ NetX(mh) = 2 * 2 /\ NetY(mh) = 2 * 1

(* C13: sub-threshold jitter carries state forward.  On a tracked          *)
(* single-hand call whose window, with the sample of the call, is full and *)
(* has net_x = 0.02 and net_y = 0.01, and on which no static pose matches, *)
(* no gesture is returned, the reference becomes the current position, the *)
(* window is the old one with the new sample appended (the oldest dropped  *)
(* only beyond the capacity) and the timestamp is unchanged.               *)
C13_JitterCarriesForward ==
    \A h \in JitterHands :
        (/\ initial_position # NoPosition
         /\ JitterNet(WindowWith(h))
         /\ PoseTested(now, last_gesture_time) => PoseGesture(h) = None) =>
            \A r \in {Classify(TrackerState, <<h>>, now)} :
            \A mv \in {Movement(CurrentPosition(h), initial_position)} :
                /\ r.gesture = None
                /\ r.st.ip = CurrentPosition(h)
                /\ r.st.lgt = last_gesture_time
                /\ r.st.mh = IF Len(movement_history) < movement_history_size
                             THEN movement_history \o <<mv>>
                             ELSE Tail(movement_history) \o <<mv>>

(* a call left a full window with net (0.02, 0.01) behind, the reference   *)
(* at the position of the hand, and returned nothing                       *)
C13_Witness ==
    /\ JitterNet(movement_history)
    /\ initial_position = Twice(PosE)
    /\ gesture = None
    /\ n_fed = 1
    /\ n_hands = 1
    /\ last_gesture_time > 0

(* the media action each gesture of the detector stands for *)
MediaAction(g) ==
    CASE g = "play" -> "play"
      [] g = "pause" -> "pause"
      [] g = "swipe_right" -> "next_track"
      [] g = "swipe_left" -> "previous_track"
      [] g = "volume_up" -> "volume_up"
      [] g = "volume_down" -> "volume_down"

(* the last iteration of the loop passed its gesture to handle_gesture,    *)
(* which processed it                                                      *)
GestureProcessed ==
    /\ gesture # None
    /\ ctl_last_gesture = gesture
    /\ ctl_last_gesture_time = now

(* C14: dispatcher mapping.  Every play, pause, swipe or volume gesture    *)
(* that the detector returns and handle_gesture processes invokes its      *)
(* media action: play, pause, next track, previous track, volume change.   *)
C14_EveryGestureMapped ==
    (GestureProcessed /\ gesture \in MotionGestures \cup StaticGestures) =>
        action = MediaAction(gesture)

(* C15 amended: the repeat cooldown of handle_gesture.  A gesture equal to *)
(* the last processed one that arrives less than 1.0 s after it invokes    *)
(* nothing and leaves last_gesture and last_gesture_time unchanged; any    *)
(* other gesture, and the same one 1.0 s or more later, is processed: both *)
(* fields are set and the method of the gesture, if it has one, is         *)
(* invoked.  Nothing is said of a method invoked for gestures that are not *)
(* consecutive.                                                            *)
C15_RepeatCooldown ==
    \A g \in Gestures :
        \A r \in {HandleGesture(ControllerState, g, now)} :
            IF g = ctl_last_gesture
                   /\ now - ctl_last_gesture_time < gesture_repeat_cooldown
            THEN r.action = None /\ r.ctl = ControllerState
            ELSE /\ r.ctl = [lg |-> g, lgt |-> now]
                 /\ r.action = GestureAction(g)

(* C15 as stated: the rule above, and so the same action is never          *)
(* dispatched twice within 1.0 s.                                          *)
C15_NoActionTwiceWithinCooldown ==
    /\ C15_RepeatCooldown
    /\ gap # NoTime => gap >= gesture_repeat_cooldown

(* the detector returned swipe_right now, less than 1.0 s after            *)
(* handle_gesture processed a swipe_right, and the call invoked nothing    *)
C15_Witness ==
    /\ gesture = "swipe_right"
    /\ last_gesture_time = now
    /\ ctl_last_gesture = "swipe_right"
    /\ ctl_last_gesture_time < now
    /\ now - ctl_last_gesture_time < gesture_repeat_cooldown
    /\ action = None

(* C18: quit ends the program.  After an iteration in which process_frame  *)
(* returned quit the loop of main has been left.                           *)
C18_QuitStopsLoop == gesture = "quit" => ~running

(* net = newest sample - oldest sample of window w *)
Net(w) == <<w[Len(w)][1] - w[1][1], w[Len(w)][2] - w[1][2]>>

(* the swipe condition as the claim states it, on window w: at least three *)
(* samples, |net_x| > 0.08, ratio < 0.5 with ratio = |net_y / net_x| when  *)
(* |net_x| > 0.001 and 0 otherwise, and gesture_cooldown elapsed           *)
SwipeCondition(w) ==
    /\ Len(w) >= 3
    /\ Abs(Net(w)[1]) > 16
    /\ IF Abs(Net(w)[1]) > 0 THEN 2 * Abs(Net(w)[2]) < Abs(Net(w)[1]) ELSE 0 < 1
    /\ now - last_gesture_time >= gesture_cooldown

(* C16: swipe decision.  On a classified call with one hand and a stored   *)
(* reference a swipe is returned if and only if the swipe condition holds  *)
(* on the window with the sample of the call; it is swipe_right when       *)
(* net_x > 0 and swipe_left otherwise; on firing the timestamp is the call *)
(* time, reference and window are reset, and no other test decides the     *)
(* result.                                                                 *)
C16_SwipeDecision ==
    \A h \in WellFormedHands :
        (Classifying /\ initial_position # NoPosition) =>
            \A r \in {Classify(TrackerState, <<h>>, now)} :
            \A w \in {WindowWith(h)} :
                /\ r.gesture \in {"swipe_left", "swipe_right"} <=> SwipeCondition(w)
                /\ SwipeCondition(w) =>
                      /\ r.gesture = IF Net(w)[1] > 0 THEN "swipe_right" ELSE "swipe_left"
                      /\ r.st = NoHandReset([TrackerState EXCEPT !.lgt = now])

(* a call on a single hand returned swipe_left 0.3 s after the start, set  *)
(* the timestamp to its time and reset the reference                       *)
C16_Witness ==
    /\ gesture = "swipe_left"
    /\ n_hands = 1
    /\ last_gesture_time = now
    /\ now = StartTime + gesture_cooldown
    /\ initial_position = NoPosition

(* the vertical-pan condition as the claim states it, on window w *)
VolumeCondition(w) ==
    /\ Len(w) >= 3
    /\ 2 * Abs(Net(w)[2]) > 3 * Abs(Net(w)[1])
    /\ Abs(Net(w)[2]) > 16
    /\ now - last_gesture_time >= gesture_cooldown

(* C17: vertical-pan decision.  On a classified call with one hand and a   *)
(* stored reference where the swipe did not fire, a volume gesture is      *)
(* returned if and only if the vertical-pan condition holds; it is         *)
(* volume_up when net_y < 0 and volume_down when net_y > 0.                *)
C17_VolumeDecision ==
    \A h \in WellFormedHands :
        (Classifying /\ initial_position # NoPosition) =>
            \A r \in {Classify(TrackerState, <<h>>, now)} :
            \A w \in {WindowWith(h)} :
                r.gesture \notin {"swipe_left", "swipe_right"} =>
                    /\ r.gesture \in {"volume_up", "volume_down"} <=> VolumeCondition(w)
                    /\ (VolumeCondition(w) /\ Net(w)[2] < 0) => r.gesture = "volume_up"
                    /\ (VolumeCondition(w) /\ Net(w)[2] > 0) => r.gesture = "volume_down"

(* a call on a single hand returned volume_down, set the timestamp to its  *)
(* time and reset the reference                                            *)
C17_Witness ==
    /\ gesture = "volume_down"
    /\ n_hands = 1
    /\ last_gesture_time = now
    /\ initial_position = NoPosition

(* C19: frame skipping.  process_frame classifies a call only when the     *)
(* incremented frame_skip_count is a multiple of process_every_n_frames,   *)
(* that is every fourth call; every other call returns no gesture, also    *)
(* for a frame with two raised hands, and leaves reference, window and     *)
(* timestamp unchanged.                                                    *)
C19_FrameSkipping ==
    /\ Classifying <=> frame_skip_count = 4 - 1
    /\ frame_skip_count # 0 => gesture = None /\ n_hands = 0 /\ n_fed = 0
    /\ ~Classifying =>
          \A hands \in Frames :
              \A r \in {ProcessFrame(TrackerState, frame_skip_count, hands, now)} :
                  /\ r.gesture = None
                  /\ r.st = TrackerState
                  /\ r.fsc = frame_skip_count + 1
    /\ Classifying =>
          \A hands \in {<<>>, <<Hand(PosD, "neutral"), Hand(PosD, "open")>>} :
              \A r \in {ProcessFrame(TrackerState, frame_skip_count, hands, now)} :
                  /\ r.fsc = 0
                  /\ r.gesture = Classify(TrackerState, hands, now).gesture
                  /\ r.st = Classify(TrackerState, hands, now).st

(* two calls in a row were skipped while a hand was tracked with samples   *)
(* in the window, and the next call is skipped as well, with two raised    *)
(* hands in its frame                                                      *)
C19_Witness ==
    /\ frame_skip_count = 2
    /\ gesture = None
    /\ n_hands = 0
    /\ initial_position # NoPosition
    /\ movement_history # <<>>
    /\ \E hands \in MultiFrames :
          /\ BothWristsRaised(hands)
          /\ ProcessFrame(TrackerState, frame_skip_count, hands, now).gesture = None

(* the displacement of the gliding hand between two detect_gesture calls,  *)
(* in the unit of the window                                               *)
StepPerCall ==
    <<2 * process_every_n_frames * velocity[1],
      2 * process_every_n_frames * velocity[2]>>

(* C20: constant-velocity blindness.  For a single hand in neutral pose    *)
(* whose reference point moves by the same displacement on every call,     *)
(* every sample of the window is that displacement, the net (newest minus  *)
(* oldest sample) is zero, and no swipe and no volume gesture is ever      *)
(* returned, whatever the speed.                                           *)
C20_ConstantVelocityBlind ==
    /\ gesture = None
    /\ last_gesture_time = 0
    /\ \A k \in 1..Len(movement_history) : movement_history[k] = StepPerCall
    /\ movement_history # <<>> => Net(movement_history) = <<0, 0>>

(* the hand has moved by 0.12 to the right on each of four calls in a row, *)
(* the window is full, and the call returned nothing                       *)
C20_Witness ==
    /\ velocity = <<3, 0>>
    /\ Len(movement_history) = movement_history_size
    /\ movement_history[1][1] > SwipeNetDist
    /\ frame_skip_count = 0
    /\ n_fed = 1
    /\ gesture = None
    /\ now - last_gesture_time >= gesture_cooldown

(* the times of the latest motion gesture and of the latest static one *)
LastMotion == emitted.motion[2]
LastStatic == emitted.static[2]

(* C21: shared cooldown across categories.  One timestamp serves both      *)
(* cooldowns: it is the time of the latest non-quit gesture of either      *)
(* kind.  A motion gesture comes at least gesture_cooldown after the       *)
(* non-quit gesture before it, of whatever kind, and a play or pause at    *)
(* least play_pause_cooldown after it, so a swipe or volume gesture        *)
(* postpones play and pause by 2.0 s.  A call that returns quit decides so *)
(* whatever the timestamp and leaves it unchanged.                         *)
C21_SharedCooldown ==
    /\ last_gesture_time =
          IF LastMotion = NoTime /\ LastStatic = NoTime THEN 0
          ELSE Max(LastMotion, LastStatic)
    /\ LastMotion = LastStatic => LastMotion = NoTime
    /\ LastMotion > LastStatic =>
          \A prev \in {Max(emitted.motion[1], LastStatic)} :
              prev # NoTime => LastMotion - prev >= gesture_cooldown
    /\ LastStatic > LastMotion =>
          \A prev \in {Max(emitted.static[1], LastMotion)} :
              prev # NoTime => LastStatic - prev >= play_pause_cooldown
    /\ Classifying =>
          \A hands \in MultiFrames :
              BothWristsRaised(hands) =>
                  \A r \in {ProcessFrame(TrackerState, frame_skip_count, hands, now)} :
                      r.gesture = "quit" /\ r.st.lgt = last_gesture_time

(* a play or pause was returned exactly play_pause_cooldown after a motion *)
(* gesture, the latest gesture before it                                   *)
C21_Witness ==
    /\ gesture \in StaticGestures
    /\ LastStatic = now
    /\ LastMotion # NoTime
    /\ LastMotion > emitted.static[1]
    /\ LastStatic - LastMotion = play_pause_cooldown

(* C22: warm-up after reset.  A swipe or volume gesture is returned only   *)
(* by a detect_gesture call that is at least the fourth since the tracker  *)
(* was last reset: the first stores the reference and adds no sample, and  *)
(* each later one adds at most one of the min_swipe_frames samples.  So    *)
(* the three detect_gesture calls that follow a swipe, volume, play or     *)
(* pause gesture or a frame without a hand return no motion gesture.       *)
C22_WarmUpAfterReset ==
    /\ gesture \in MotionGestures => emit_call >= min_swipe_frames + 1
    /\ calls_since_reset = 0 => initial_position = NoPosition
    /\ Len(movement_history) < calls_since_reset \/ calls_since_reset = 0
    /\ Classifying /\ calls_since_reset < min_swipe_frames =>
          \A hand \in WellFormedHands \cup MalformedHands :
              DetectGesture(TrackerState, hand, now).gesture \notin MotionGestures

(* a motion gesture returned by exactly the fourth call since the reset *)
C22_Witness ==
    /\ gesture \in MotionGestures
    /\ emit_call = min_swipe_frames + 1
    /\ calls_since_reset = 0

(* the swipe condition on the displacement of window w, as the claim       *)
(* states it: |net_x| > 0.08 and ratio < 0.5                               *)
SwipeGeometry(w) ==
    /\ Abs(Net(w)[1]) > 16
    /\ IF Abs(Net(w)[1]) > 0 THEN 2 * Abs(Net(w)[2]) < Abs(Net(w)[1]) ELSE 0 < 1

(* the vertical-pan condition on the displacement of window w, as the      *)
(* claim states it: |net_y| > 1.5 * |net_x| and |net_y| > 0.08             *)
VerticalGeometry(w) ==
    /\ 2 * Abs(Net(w)[2]) > 3 * Abs(Net(w)[1])
    /\ Abs(Net(w)[2]) > 16

(* the tracked call with the vertical-pan test evaluated before the swipe  *)
(* test                                                                    *)
DetectTracked_VolumeFirst(st, hand, t, cur, mh) ==
    IF CanVolume(mh, t, st.lgt) THEN Emit(mh, t, VolumeGesture(NetY(mh)))
    ELSE IF CanSwipe(mh, t, st.lgt) THEN Emit(mh, t, SwipeGesture(NetX(mh)))
    ELSE IF PoseTested(t, st.lgt)
      THEN IF PoseRaises(hand) THEN Raised(st, mh)
           ELSE UpdateTracking(st, cur, mh, t, PoseGesture(hand))
    ELSE UpdateTracking(st, cur, mh, t, None)

(* C23: the motion tests are mutually exclusive.  On the window a tracked  *)
(* call builds, the swipe condition and the vertical-pan condition never   *)
(* hold together, neither as stated nor as the detector computes them, and *)
(* the call returns the same result and leaves the same state when the     *)
(* vertical-pan test is evaluated before the swipe test.                   *)
C23_MotionTestsExclusive ==
    (Classifying /\ initial_position # NoPosition) =>
        \A pose \in Poses :
        \A h \in {Hand(hand_pos, pose)} :
        \A w \in {WindowWith(h)} :
            /\ ~(SwipeGeometry(w) /\ VerticalGeometry(w))
            /\ ~(CanSwipe(w, now, last_gesture_time)
                   /\ CanVolume(w, now, last_gesture_time))
            /\ DetectGesture(TrackerState, h, now) =
                   DetectTracked_VolumeFirst(TrackerState, h, now,
                                             CurrentPosition(h), w)

(* a call on a window displaced by more than 0.08 both in x and in y, on   *)
(* which the swipe test fires                                              *)
C23_Witness ==
    /\ Classifying
    /\ initial_position # NoPosition
    /\ \A w \in {WindowWith(Hand(hand_pos, "neutral"))} :
          /\ Abs(Net(w)[1]) > 16
          /\ Abs(Net(w)[2]) > 16
          /\ SwipeGeometry(w)
          /\ CanSwipe(w, now, last_gesture_time)

(* C24: a held pose keeps firing.  While every classified call presents   *)
(* the same motionless open palm and the clock keeps advancing, play is    *)
(* returned again and again: whenever the timestamp is t, from the start   *)
(* (t = 0) or from a play at t, and the clock can still reach              *)
(* t + play_pause_cooldown, a later call returns play and moves the        *)
(* timestamp past t.  Neither the cooldown nor the reset after each play,  *)
(* whose next call only stores the reference, blocks it.                   *)
C24_HeldPoseKeepsFiring ==
    \A t \in {u \in {0} \cup HoldInstants : u + play_pause_cooldown <= MaxTime} :
        (last_gesture_time = t) ~> (gesture = "play" /\ last_gesture_time > t)

(* play was returned a second time, exactly play_pause_cooldown after the  *)
(* first                                                                   *)
C24_Witness ==
    /\ gesture = "play"
    /\ emitted.static[2] = now
    /\ emitted.static[1] # NoTime
    /\ emitted.static[2] - emitted.static[1] = play_pause_cooldown
    /\ initial_position = NoPosition

=============================================================================
